---- MODULE Spec2Model ----
(***************************************************************************)
(* The inter-service resilience clients of donation-service:               *)
(*   DonorServiceClient   (src/donation-service/server.js, 165-585)        *)
(*   ReceiptServiceClient (src/unnamed/part_000, 4-364)                    *)
(* Each client owns one circuit breaker (state, failure count, time of the *)
(* last failure), retries an HTTP call with exponential backoff and        *)
(* answers with a degraded default when the call cannot succeed.           *)
(*                                                                         *)
(* The two clients are independent objects with textually identical        *)
(* breaker and retry code; `client` selects in Init which of the two       *)
(* objects a behaviour is about.                                           *)
(*                                                                         *)
(* JavaScript runs one callback at a time: an action of the model is the   *)
(* code that runs between two suspension points (an HTTP response, a       *)
(* timer).  Promise continuations that are only microtask hops apart are   *)
(* part of the same action.                                                *)
(***************************************************************************)
EXTENDS Integers, Sequences, FiniteSets, TLC

VARIABLES
    client,     \* "donor" (DonorServiceClient) or "receipt" (ReceiptServiceClient)
    chunkSize,  \* the size getDonors passes to _chunkArray
    breaker,    \* [circuitState, failureCount, lastFailureTime] of the client
    now,        \* Date.now(), in ms
    tasks,      \* the single-entity calls (getDonor, generateReceipt, ...) in progress
    batch,      \* the getDonors call in progress
    hist,       \* what an observer of the breaker has seen so far (history)
    web         \* the routes of donation-service that call the clients, and their database

vars == <<client, chunkSize, breaker, now, tasks, batch, hist, web>>

----------------------------------------------------------------------------
(* Program constants *)

FailureThreshold == 5
ResetTimeout == 30000
DonorMaxRetries == 2
ReceiptMaxRetries == 3
RetryDelay == 300
ConcurrencyLimit == 3
NULL == -1          \* _lastFailureTime: null (Date.now() is never negative)

(* Bounds of the model *)

NumSingles == 1     \* top-level single-entity calls that may be in progress at once
ChunkSize == 2      \* IDs per /batch request (the source passes 20, line 418)
MaxIds == 3         \* unique IDs of a getDonors input
MaxTicks == 3       \* clock steps of a behaviour

ClockStep == ResetTimeout \div 2
MaxTime == MaxTicks * ClockStep

Ids == 1..MaxIds
\* a chunk with more IDs than _fallbackToIndividualRequests runs at a time
\* (the source's 20 against its 3)
WideChunk == ConcurrencyLimit + 1

ExtraId == MaxIds + WideChunk + 1     \* an ID the caller did not ask for

MaxRetries == IF client = "donor" THEN DonorMaxRetries ELSE ReceiptMaxRetries

----------------------------------------------------------------------------
(* Sequences *)

Range(s) == {s[i] : i \in DOMAIN s}

Iota(n) == [i \in 1..n |-> i]

Min(a, b) == IF a < b THEN a ELSE b

SubSeqFrom(s, a, b) == [i \in 1..(b - a + 1) |-> s[a + i - 1]]

\* [...new Set(donorIds)]: the unique elements, in order of first occurrence
RECURSIVE Dedupe(_)
Dedupe(s) ==
    IF s = <<>> THEN <<>>
    ELSE LET front == Dedupe(SubSeqFrom(s, 1, Len(s) - 1))
             last == s[Len(s)]
         IN  IF last \in Range(front) THEN front ELSE Append(front, last)

\* for (i = 0; i < array.length; i += size) chunks.push(array.slice(i, i + size))
RECURSIVE ChunkFrom(_, _, _)
ChunkFrom(array, size, i) ==
    IF i >= Len(array) THEN <<>>
    ELSE <<SubSeqFrom(array, i + 1, Min(i + size, Len(array)))>>
             \o ChunkFrom(array, size, i + size)

\* (mutant) the loop starts at index 1
ChunkArray_fromOne(array, size) == ChunkFrom(array, size, 1)

ChunkArray(array, size) == ChunkFrom(array, size, 0)

----------------------------------------------------------------------------
(* Circuit breaker: pure versions of _checkCircuit, _recordSuccess and     *)
(* _recordFailure on a breaker record b at time t.  ReceiptServiceClient's *)
(* copies (part_000, 26-76) are the same code.                             *)

\* JavaScript's `now - this._lastFailureTime`: null converts to 0
ToNumber(x) == IF x = NULL THEN 0 ELSE x

\* (mutant) the gate lets every call through
Allows_always(b, t) == TRUE

\* (mutant) single-trial gating: a HALF_OPEN breaker admits nobody else
Allows_oneTrial(b, t) ==
    IF b.circuitState = "CLOSED" THEN TRUE
    ELSE IF b.circuitState = "OPEN"
         THEN t - ToNumber(b.lastFailureTime) >= ResetTimeout
         ELSE FALSE

\* the value _checkCircuit returns
Allows(b, t) ==
    IF b.circuitState = "CLOSED" THEN TRUE
    ELSE IF b.circuitState = "OPEN"
         THEN t - ToNumber(b.lastFailureTime) >= ResetTimeout
         ELSE TRUE

\* the breaker after _checkCircuit ran
CheckCircuit(b, t) ==
    IF b.circuitState = "OPEN" /\ t - ToNumber(b.lastFailureTime) >= ResetTimeout
    THEN [b EXCEPT !.circuitState = "HALF_OPEN"]
    ELSE b

\* (mutant) a success zeroes the count and never closes the breaker
RecordSuccess_noClose(b) == [b EXCEPT !.failureCount = 0]

\* (mutant) a success closes the breaker from any state
RecordSuccess_anyState(b) == [b EXCEPT !.circuitState = "CLOSED", !.failureCount = 0]

\* (mutant) a success also forgets when the last failure was
RecordSuccess_clearsTime(b) ==
    IF b.circuitState = "HALF_OPEN"
    THEN [b EXCEPT !.circuitState = "CLOSED", !.failureCount = 0]
    ELSE IF b.failureCount > 0
         THEN [b EXCEPT !.failureCount = 0, !.lastFailureTime = NULL]
         ELSE b

\* (mutant) a success counts only in HALF_OPEN: failures add up across successes
RecordSuccess_trialOnly(b) ==
    IF b.circuitState = "HALF_OPEN"
    THEN [b EXCEPT !.circuitState = "CLOSED", !.failureCount = 0]
    ELSE b

RecordSuccess(b) ==
    IF b.circuitState = "HALF_OPEN"
    THEN [b EXCEPT !.circuitState = "CLOSED", !.failureCount = 0]
    ELSE IF b.failureCount > 0
         THEN [b EXCEPT !.failureCount = 0]
         ELSE b

\* (mutant) the breaker trips one failure late: `>` for `>=`
RecordFailure_late(b, t) ==
    LET c == b.failureCount + 1
    IN  [circuitState |-> IF b.circuitState = "HALF_OPEN" \/ c > FailureThreshold
                          THEN "OPEN" ELSE b.circuitState,
         failureCount |-> c,
         lastFailureTime |-> t]

\* (mutant) a failed trial does not reopen the breaker: the HALF_OPEN test is lost
RecordFailure_countOnly(b, t) ==
    LET c == b.failureCount + 1
    IN  [circuitState |-> IF c >= FailureThreshold THEN "OPEN" ELSE b.circuitState,
         failureCount |-> c,
         lastFailureTime |-> t]

RecordFailure(b, t) ==
    LET c == b.failureCount + 1
    IN  [circuitState |-> IF b.circuitState = "HALF_OPEN" \/ c >= FailureThreshold
                          THEN "OPEN" ELSE b.circuitState,
         failureCount |-> c,
         lastFailureTime |-> t]

(* An observer of the breaker: every call of the three methods goes through *)
(* one of the wrappers below, which record what the call did.               *)

\* one call of a breaker method took the breaker from b to c at time t: the
\* state stayed, or moved along an edge of the state machine under its guard
LegalMove(b, c, t) ==
    \/ c.circuitState = b.circuitState
    \/ /\ b.circuitState = "CLOSED" /\ c.circuitState = "OPEN"
       /\ c.failureCount >= FailureThreshold
    \/ /\ b.circuitState = "OPEN" /\ c.circuitState = "HALF_OPEN"
       /\ b.lastFailureTime # NULL
       /\ t - b.lastFailureTime >= ResetTimeout
    \/ /\ b.circuitState = "HALF_OPEN" /\ c.circuitState \in {"CLOSED", "OPEN"}

\* one call of a breaker method took the breaker from b to c, with `streak`
\* failures recorded since the last recorded success: the breaker left CLOSED
\* only if that made failureThreshold failures in a row
TripsOnStreak(b, c, streak) ==
    (b.circuitState = "CLOSED" /\ c.circuitState # "CLOSED")
    => (c.circuitState = "OPEN" /\ streak >= FailureThreshold)

InitHist ==
    [streak |-> 0,          \* failures recorded since the last recorded success
     lastFail |-> NULL,     \* when the last failure was recorded
     reopenedAt |-> NULL,   \* when a failure was last recorded in HALF_OPEN
     legal |-> TRUE,        \* every breaker call so far was a LegalMove
     healthy |-> FALSE,     \* the downstream has been seen to recover for good
     onStreak |-> TRUE,     \* every breaker call so far satisfied TripsOnStreak
     runs |-> NULL]         \* getDonors calls that ran to their end (NULL: not counted)

Chk(w, t) ==
    LET c == CheckCircuit(w.breaker, t)
    IN  [w EXCEPT !.breaker = c,
                  !.hist.onStreak = @ /\ TripsOnStreak(w.breaker, c, w.hist.streak),
                  !.hist.legal = @ /\ LegalMove(w.breaker, c, t)]

RecS(w, t) ==
    LET c == RecordSuccess(w.breaker)
    IN  [w EXCEPT !.breaker = c,
                  !.hist.streak = 0,
                  !.hist.onStreak = @ /\ TripsOnStreak(w.breaker, c, 0),
                  !.hist.legal = @ /\ LegalMove(w.breaker, c, t)]

RecF(w, t) ==
    LET c == RecordFailure(w.breaker, t)
    IN  [w EXCEPT !.breaker = c,
                  !.hist.streak = @ + 1,
                  !.hist.onStreak = @ /\ TripsOnStreak(w.breaker, c, w.hist.streak + 1),
                  !.hist.lastFail = t,
                  !.hist.reopenedAt = IF w.breaker.circuitState = "HALF_OPEN" THEN t ELSE @,
                  !.hist.legal = @ /\ LegalMove(w.breaker, c, t)]

----------------------------------------------------------------------------
(* Values the clients return *)

\* (mutant) the placeholder's e-mail address is made from the clock
CreateDefaultDonor_stamped(donorId, t) ==
    [id |-> donorId, firstName |-> "Unknown", lastName |-> "Donor",
     email |-> <<"unknown", t>>, phone |-> "+919999999999",
     defaultData |-> TRUE, createdAt |-> t]

\* _createDefaultDonor; _createdAt is the instant that toISOString() prints
CreateDefaultDonor(donorId, t) ==
    [id |-> donorId, firstName |-> "Unknown", lastName |-> "Donor",
     email |-> "unknown@example.com", phone |-> "+919999999999",
     defaultData |-> TRUE, createdAt |-> t]

CreateDefaultReceipt(donationId, t) ==
    [donationId |-> donationId, status |-> "PENDING",
     defaultData |-> TRUE, createdAt |-> t]

\* the `data` member of a valid downstream envelope about entity id
Payload(id) == [id |-> id, payload |-> TRUE]

Null == [null |-> TRUE]          \* JavaScript's null
Pending == [pending |-> TRUE]    \* the promise has not settled
Rejected == [rejected |-> TRUE]  \* the promise rejected: the caller's await throws
Resolved(m) == [map |-> m]       \* getDonors resolved with the map m

----------------------------------------------------------------------------
(* Single-entity calls: getDonor (server.js 286-353), generateReceipt,     *)
(* getReceiptById and sendReceipt (part_000 163-363).  The four methods    *)
(* have the same shape and differ in the value they return when degraded.  *)

DonorOps == {"getDonor"}
ReceiptOps == {"generateReceipt", "getReceiptById", "sendReceipt"}
ClientOps == IF client = "donor" THEN DonorOps ELSE ReceiptOps

\* how axios rejects: no response, timeout, or a response outside 2xx
ErrKinds == {"network", "timeout", "http404", "http4xx", "http5xx"}
\* a 2xx response carries a valid {success, data} envelope or it does not
HttpOutcomes == {"ok", "malformed"} \cup ErrKinds

TaskIds == 1..(NumSingles + WideChunk)
Singles == 1..NumSingles
Sub(i) == NumSingles + i           \* the getDonor call for the i-th ID of a chunk

IdleTask ==
    [op |-> "none", id |-> 0, pc |-> "idle", retries |-> 0, delay |-> 0,
     attempts |-> 0, waits |-> <<>>, exit |-> "none", result |-> Pending,
     nFail |-> 0, nSucc |-> 0, trial |-> FALSE, sawMalformed |-> FALSE,
     metrics |-> <<>>, cause |-> "none"]

\* (mutant) the status of a metrics record does not look at `success`
LogStatus_failure(success) == "FAILURE"

\* _logMetrics: `success ? 'SUCCESS' : 'FAILURE'`
LogStatus(success) == IF success THEN "SUCCESS" ELSE "FAILURE"

\* (mutant) generateReceipt gives up with null like its two siblings
Degraded_null(op, id, t) ==
    IF op = "getDonor" THEN CreateDefaultDonor(id, t) ELSE Null

\* the value returned on breaker short-circuit and in the catch block
Degraded(op, id, t) ==
    CASE op = "getDonor" -> CreateDefaultDonor(id, t)
      [] op = "generateReceipt" -> CreateDefaultReceipt(id, t)
      [] op = "getReceiptById" -> Null
      [] op = "sendReceipt" -> Null

\* (mutant) the last retry is never made
RetriesExhausted_early(retries) == retries <= 1

\* _retryWithBackoff: `if (retries <= 0) throw error`
RetriesExhausted(retries) == retries <= 0

\* (mutant) the delay grows by a constant step
NextDelay_linear(delay) == delay + RetryDelay

\* _retryWithBackoff: the delay handed to the recursive call
NextDelay(delay) == delay * 2

\* (mutant) no catch block: the error leaves the method
Fail_uncaught(w, k, t, how) ==
    [w EXCEPT !.tasks[k].pc = "done",
              !.tasks[k].exit = how,
              !.tasks[k].result = Rejected]

\* an error thrown in a call's try block lands in its catch block:
\* _recordFailure, then the degraded value is returned; the finally block logs
\* the metrics record
Fail(w, k, t, how) ==
    [RecF(w, t) EXCEPT !.tasks[k].pc = "done",
                       !.tasks[k].exit = how,
                       !.tasks[k].nFail = @ + 1,
                       !.tasks[k].result = Degraded(w.tasks[k].op, w.tasks[k].id, t),
                       !.tasks[k].metrics = Append(@, LogStatus(FALSE))]

\* (mutant) a rejected call restarts the cooldown
Begin_shortStamps(w, k, t, op, id, headersOk, maxRetries) ==
    LET fresh == [IdleTask EXCEPT !.op = op, !.id = id]
    IN  IF ~Allows(w.breaker, t)
        THEN [w EXCEPT !.breaker.lastFailureTime = t,
                       !.tasks[k] = [fresh EXCEPT !.pc = "done", !.exit = "short",
                                                  !.result = Degraded(op, id, t)]]
        ELSE LET w1 == [Chk(w, t) EXCEPT
                            !.tasks[k] = [fresh EXCEPT
                                !.trial = (w.breaker.circuitState = "OPEN")]]
             IN  IF ~headersOk
                 THEN Fail(w1, k, t, "headers")
                 ELSE [w1 EXCEPT !.tasks[k].pc = "inflight",
                                 !.tasks[k].retries = maxRetries,
                                 !.tasks[k].delay = RetryDelay,
                                 !.tasks[k].attempts = 1]

\* the synchronous head of a call, up to its first await: the breaker gate,
\* _prepareHeaders (throws a TypeError on undefined headers), the first request
Begin(w, k, t, op, id, headersOk, maxRetries) ==
    LET fresh == [IdleTask EXCEPT !.op = op, !.id = id]
    IN  IF ~Allows(w.breaker, t)
        THEN [w EXCEPT !.tasks[k] = [fresh EXCEPT !.pc = "done", !.exit = "short",
                                                  !.result = Degraded(op, id, t)]]
        ELSE LET w1 == [Chk(w, t) EXCEPT
                            !.tasks[k] = [fresh EXCEPT
                                !.trial = (w.breaker.circuitState = "OPEN")]]
             IN  IF ~headersOk
                 THEN Fail(w1, k, t, "headers")
                 ELSE [w1 EXCEPT !.tasks[k].pc = "inflight",
                                 !.tasks[k].retries = maxRetries,
                                 !.tasks[k].delay = RetryDelay,
                                 !.tasks[k].attempts = 1]

\* (mutant) a 404 is an answer, not a failure of the dependency
GiveUp_404Passes(w, k, t, how, outcome) ==
    IF outcome = "http404"
    THEN [w EXCEPT !.tasks[k].pc = "done",
                   !.tasks[k].exit = how,
                   !.tasks[k].cause = outcome,
                   !.tasks[k].result = Degraded(w.tasks[k].op, w.tasks[k].id, t),
                   !.tasks[k].metrics = Append(@, LogStatus(FALSE))]
    ELSE Fail([w EXCEPT !.tasks[k].cause = outcome], k, t, how)

\* the catch block is entered with the error of the last HTTP attempt: it
\* looks at error.response only to choose what to print
GiveUp(w, k, t, how, outcome) ==
    Fail([w EXCEPT !.tasks[k].cause = outcome], k, t, how)

\* call k has received a 2xx response without the {success, data} envelope
NoteMalformed(w, k, outcome) ==
    [w EXCEPT !.tasks[k].sawMalformed = @ \/ outcome = "malformed"]

\* (mutant) the envelope is validated inside the retried function
Respond_validatesInside(w, k, t, outcome) ==
    LET task == w.tasks[k]
        w0 == NoteMalformed(w, k, outcome)
    IN  IF outcome = "ok"
        THEN [RecS(w0, t) EXCEPT !.tasks[k].pc = "done",
                                 !.tasks[k].exit = "ok",
                                 !.tasks[k].nSucc = @ + 1,
                                 !.tasks[k].result = Payload(task.id),
                                 !.tasks[k].metrics = Append(@, LogStatus(TRUE))]
        ELSE IF RetriesExhausted(task.retries)
        THEN Fail(w0, k, t, IF outcome = "malformed" THEN "malformed" ELSE "exhausted")
        ELSE [w0 EXCEPT !.tasks[k].pc = "sleep",
                        !.tasks[k].waits = Append(@, task.delay)]

\* the callback of one HTTP attempt of call k: a rejection is handled by
\* _retryWithBackoff, a 2xx response comes back to the method, which checks the
\* envelope itself and throws into its own catch block
Respond(w, k, t, outcome) ==
    LET task == w.tasks[k]
        w0 == NoteMalformed(w, k, outcome)
    IN  IF outcome = "ok"
        THEN [RecS(w0, t) EXCEPT !.tasks[k].pc = "done",
                                 !.tasks[k].exit = "ok",
                                 !.tasks[k].nSucc = @ + 1,
                                 !.tasks[k].result = Payload(task.id),
                                 !.tasks[k].metrics = Append(@, LogStatus(TRUE))]
        ELSE IF outcome = "malformed"
        THEN GiveUp(w0, k, t, "malformed", outcome)
        ELSE IF RetriesExhausted(task.retries)
        THEN GiveUp(w0, k, t, "exhausted", outcome)
        ELSE [w0 EXCEPT !.tasks[k].pc = "sleep",
                        !.tasks[k].waits = Append(@, task.delay)]

\* (mutant) the recursive call is handed the same number of retries
Retry_sameBudget(w, k) ==
    [w EXCEPT !.tasks[k].pc = "inflight",
              !.tasks[k].delay = NextDelay(@),
              !.tasks[k].attempts = @ + 1]

\* the backoff timer of call k fires: the recursive _retryWithBackoff call
Retry(w, k) ==
    [w EXCEPT !.tasks[k].pc = "inflight",
              !.tasks[k].retries = @ - 1,
              !.tasks[k].delay = NextDelay(@),
              !.tasks[k].attempts = @ + 1]

----------------------------------------------------------------------------
(* getDonors (server.js 397-480) and its helpers *)

Put(m, k, v) == [x \in (DOMAIN m) \cup {k} |-> IF x = k THEN v ELSE m[x]]

EmptyMap == [x \in {} |-> Null]

IdleBatch ==
    [pc |-> "idle", arg |-> "none", donorIds |-> <<>>, uniq |-> <<>>, ci |-> 0, qi |-> 0,
     donorMap |-> EmptyMap, retries |-> 0, delay |-> 0, attempts |-> 0,
     exit |-> "none", result |-> Pending, retrying |-> "none", answered |-> FALSE,
     nRec |-> 0]

\* _createDefaultDonorMap
CreateDefaultDonorMap(donorIds, t) ==
    [id \in Range(donorIds) |-> CreateDefaultDonor(id, t)]

Chunks(w) == ChunkArray(w.batch.uniq, chunkSize)

\* uniqueDonorIds.forEach(id => { if (!donorMap[id]) donorMap[id] = default })
FillMissing(donorMap, uniq, t) ==
    [id \in (DOMAIN donorMap) \cup Range(uniq) |->
        IF id \in DOMAIN donorMap THEN donorMap[id] ELSE CreateDefaultDonor(id, t)]

\* lines 452-469: the aggregate breaker outcome, the backfill, the return
Finish(w, t) ==
    [(IF DOMAIN w.batch.donorMap # {} THEN RecS(w, t) ELSE RecF(w, t)) EXCEPT
        !.hist.runs = IF @ = NULL THEN NULL ELSE @ + 1,
        !.batch.nRec = @ + 1,
        !.batch.pc = "done", !.batch.retries = 0,
        !.batch.delay = 0, !.batch.attempts = 0,
        !.batch.exit = IF DOMAIN w.batch.donorMap # {} THEN "ok" ELSE "none-found",
        !.batch.result = Resolved(FillMissing(w.batch.donorMap, w.batch.uniq, t))]

\* the /batch request of chunk ci goes out (no breaker gate at this point)
SendChunk(w, ci) ==
    [w EXCEPT !.batch.pc = "inflight",
              !.batch.ci = ci,
              !.batch.retries = DonorMaxRetries,
              !.batch.delay = RetryDelay,
              !.batch.attempts = 1]

\* the loop `for (const chunk of donorIdChunks)` moves on
AfterChunk(w, t) ==
    IF w.batch.ci < Len(Chunks(w)) THEN SendChunk(w, w.batch.ci + 1) ELSE Finish(w, t)

\* a promise of _processDonorChunkIndividually settles: its .then stores the
\* donor under the requested ID, its .catch a default donor (the call's own
\* record is not kept)
Settle(w, k, t) ==
    IF w.tasks[k].pc # "done" THEN w
    ELSE [w EXCEPT !.batch.donorMap =
                       Put(@, w.tasks[k].id,
                           IF w.tasks[k].result = Rejected
                           THEN CreateDefaultDonor(w.tasks[k].id, t)
                           ELSE w.tasks[k].result),
                   !.batch.nRec = @ + w.tasks[k].nSucc + w.tasks[k].nFail,
                   !.tasks[k] = [IdleTask EXCEPT !.pc = "settled"]]

AllSettled(w) ==
    \A i \in 1..Len(Chunks(w)[w.batch.ci]) : w.tasks[Sub(i)].pc = "settled"

\* (mutant) the loop goes on as soon as one of the chunk's calls has settled
Join_first(w, t) ==
    IF \E k \in TaskIds \ Singles : w.tasks[k].pc = "settled"
    THEN AfterChunk([w EXCEPT !.tasks = [k \in TaskIds |->
                                 IF w.tasks[k].pc = "settled" THEN IdleTask
                                 ELSE w.tasks[k]]], t)
    ELSE w

\* Promise.allSettled resolves: the loop over the chunks goes on
Join(w, t) ==
    IF AllSettled(w)
    THEN AfterChunk([w EXCEPT !.tasks = [k \in TaskIds |->
                                 IF k \in Singles THEN w.tasks[k] ELSE IdleTask]], t)
    ELSE w

\* donorIds.map(id => this.getDonor(id, headers)): the heads of the calls run
\* one after the other, each seeing the breaker the previous one left
RECURSIVE BeginAll(_, _, _, _)
BeginAll(w, chunk, i, t) ==
    IF i > Len(chunk) THEN w
    ELSE BeginAll(Settle(Begin(w, Sub(i), t, "getDonor", chunk[i], TRUE, DonorMaxRetries),
                         Sub(i), t),
                  chunk, i + 1, t)

\* the inner catch (lines 445-449): _processDonorChunkIndividually; the frames
\* of the chunk's _retryWithBackoff are gone
ProcessDonorChunkIndividually(w, t) ==
    Join(BeginAll([w EXCEPT !.batch.pc = "fallback", !.batch.retries = 0,
                            !.batch.delay = 0, !.batch.attempts = 0],
                  Chunks(w)[w.batch.ci], 1, t), t)

\* one group of _fallbackToIndividualRequests (at most concurrencyLimit IDs):
\* getDonor(id, undefined) for each; the calls end in their heads
RECURSIVE QueueGroup(_, _, _, _)
QueueGroup(w, ids, i, t) ==
    IF i > Len(ids) THEN w
    ELSE LET w1 == Settle(Begin(w, Sub(1), t, "getDonor", ids[i], FALSE, DonorMaxRetries),
                          Sub(1), t)
             w2 == [w1 EXCEPT !.tasks[Sub(1)] = IdleTask]
         IN  QueueGroup(w2, ids, i + 1, t)

Queue(w) == ChunkArray(w.batch.uniq, ConcurrencyLimit)

FallbackGroup(w, qi, t) ==
    [QueueGroup(w, Queue(w)[qi], 1, t) EXCEPT !.batch.pc = "pace", !.batch.qi = qi]

\* the donorIds argument of getDonors: an array, null or undefined
ListArg(ids) == [kind |-> "list", ids |-> ids]
NullArg == [kind |-> "null", ids |-> <<>>]
UndefinedArg == [kind |-> "undefined", ids |-> <<>>]

\* `!donorIds || !donorIds.length`
IsEmptyArg(arg) == arg.kind \in {"null", "undefined"} \/ Len(arg.ids) = 0

\* `return {}`
ReturnEmpty(w, arg) ==
    [w EXCEPT !.batch = [IdleBatch EXCEPT !.arg = arg.kind, !.pc = "done",
                                          !.exit = "empty",
                                          !.result = Resolved(EmptyMap)]]

\* getDonors from line 400 on: dedupe, the breaker gate, the first chunk
BeginGated(w, t, donorIds, headersOk) ==
    LET uniq == Dedupe(donorIds)
        fresh == [IdleBatch EXCEPT !.arg = "list", !.donorIds = donorIds, !.uniq = uniq]
    IN  IF ~Allows(w.breaker, t)
        THEN [w EXCEPT !.batch = [fresh EXCEPT !.pc = "done", !.exit = "short",
                                               !.result = Resolved(CreateDefaultDonorMap(uniq, t))]]
        ELSE LET w1 == [Chk(w, t) EXCEPT !.batch = fresh]
             IN  IF ~headersOk
                 THEN \* _prepareHeaders throws: the outer catch (470-475)
                      FallbackGroup([RecF(w1, t) EXCEPT !.batch.nRec = @ + 1], 1, t)
                 ELSE SendChunk(w1, 1)

\* (mutant) the breaker gate comes before the test for an empty input
BeginBatch_gateFirst(w, t, arg, headersOk) ==
    IF IsEmptyArg(arg)
    THEN IF ~Allows(w.breaker, t) THEN ReturnEmpty(w, arg)
                                  ELSE ReturnEmpty(Chk(w, t), arg)
    ELSE BeginGated(w, t, arg.ids, headersOk)

\* the synchronous head of getDonors
BeginBatch(w, t, arg, headersOk) ==
    IF IsEmptyArg(arg) THEN ReturnEmpty(w, arg)
    ELSE BeginGated(w, t, arg.ids, headersOk)

\* the donors a /batch envelope may hold: none, all but the chunk's first ID,
\* the chunk's IDs, the chunk's IDs and one nobody asked for
ArrayIds(chunk) ==
    {{}, {chunk[i] : i \in 2..Len(chunk)}, Range(chunk), Range(chunk) \cup {ExtraId}}

\* what a /batch attempt can come back with: a rejection, a 2xx without the
\* envelope, an envelope whose data is an array of donors with the IDs in
\* `ids`, or (`throws`) an envelope whose data forEach throws on.  Donors
\* merged before a throw are overwritten by the fallback that follows it, so
\* a throwing outcome carries none.
BatchOutcomes(chunk) ==
    [kind : {"reject", "malformed"}, ids : {{}}, throws : {FALSE}]
    \cup [kind : {"array"}, ids : ArrayIds(chunk), throws : {FALSE}]
    \cup [kind : {"array"}, ids : {{}}, throws : {TRUE}]

MergeArray(donorMap, ids) ==
    [id \in (DOMAIN donorMap) \cup ids |->
        IF id \in ids THEN Payload(id) ELSE donorMap[id]]

\* the call came to its end in the callback of a /batch attempt that brought a
\* valid envelope
NoteAnswered(w) ==
    IF w.batch.pc = "done" THEN [w EXCEPT !.batch.answered = TRUE] ELSE w

\* (mutant) a valid envelope that leaves out an ID of the chunk sends the whole
\* chunk to the individual calls
RespondBatch_omissionFallsBack(w, t, o) ==
    IF o.kind = "reject"
    THEN IF RetriesExhausted(w.batch.retries)
         THEN ProcessDonorChunkIndividually(w, t)
         ELSE [w EXCEPT !.batch.pc = "sleep", !.batch.retrying = o.kind]
    ELSE IF o.kind = "malformed"
    THEN ProcessDonorChunkIndividually(w, t)
    ELSE LET w1 == [w EXCEPT !.batch.donorMap = MergeArray(@, o.ids)]
         IN  IF o.throws \/ ~(Range(Chunks(w)[w.batch.ci]) \subseteq o.ids)
             THEN ProcessDonorChunkIndividually(w1, t)
             ELSE NoteAnswered(AfterChunk(w1, t))

\* the callback of one /batch attempt
RespondBatch(w, t, o) ==
    IF o.kind = "reject"
    THEN IF RetriesExhausted(w.batch.retries)
         THEN ProcessDonorChunkIndividually(w, t)
         ELSE [w EXCEPT !.batch.pc = "sleep", !.batch.retrying = o.kind]
    ELSE IF o.kind = "malformed"
    THEN ProcessDonorChunkIndividually(w, t)
    ELSE LET w1 == [w EXCEPT !.batch.donorMap = MergeArray(@, o.ids)]
         IN  IF o.throws THEN ProcessDonorChunkIndividually(w1, t)
                         ELSE NoteAnswered(AfterChunk(w1, t))

RetryBatch(w) ==
    [w EXCEPT !.batch.pc = "inflight",
              !.batch.retries = @ - 1,
              !.batch.delay = NextDelay(@),
              !.batch.attempts = @ + 1,
              !.batch.retrying = "none"]

\* the 50 ms pause of _fallbackToIndividualRequests is over
AfterPace(w, t) ==
    IF w.batch.qi < Len(Queue(w))
    THEN FallbackGroup(w, w.batch.qi + 1, t)
    ELSE [w EXCEPT !.batch.pc = "done", !.batch.exit = "fallback",
                   !.batch.result = Resolved(w.batch.donorMap)]

----------------------------------------------------------------------------
(* The routes of donation-service that use the clients: POST / (server.js  *)
(* 813-934, part_006 415-536) and POST /:donationId/receipt (part_006      *)
(* 630-715).                                                                *)

Requests == {1, 2}      \* HTTP requests being served at the same time

IdleRequest == [pc |-> "idle", status |-> 0, seen |-> "none", defaulted |-> FALSE]

IdleWeb ==
    [post |-> [pc |-> "idle", status |-> 0, lookup |-> "none", saved |-> 0],
     receipt |-> [r \in Requests |-> IdleRequest],
     receiptStatus |-> "PENDING",   \* of the one Donation document the requests are about
     receiptId |-> "none",
     generated |-> 0]               \* calls of generateReceipt for that donation

----------------------------------------------------------------------------
(* The state machine *)

World == [breaker |-> breaker, tasks |-> tasks, batch |-> batch, hist |-> hist]

\* the client's part of the state becomes w
Moves(w) ==
    /\ breaker' = w.breaker
    /\ tasks' = w.tasks
    /\ batch' = w.batch
    /\ hist' = w.hist
    /\ UNCHANGED <<client, chunkSize, now>>

Becomes(w) ==
    /\ Moves(w)
    /\ UNCHANGED web

\* donorIds arguments: the empty list, one ID, and for each n the list 1..n
\* with its last ID repeated in front (IDs are interchangeable labels)
BatchInputs ==
    {<<>>, <<1>>} \cup {<<n>> \o Iota(n) : n \in 2..MaxIds}

BatchArgs == {NullArg, UndefinedArg} \cup {ListArg(ids) : ids \in BatchInputs}

Init ==
    /\ client \in {"donor", "receipt"}
    /\ chunkSize = ChunkSize
    /\ breaker = [circuitState |-> "CLOSED", failureCount |-> 0,
                  lastFailureTime |-> NULL]
    /\ now = 0
    /\ tasks = [k \in TaskIds |-> IdleTask]
    /\ batch = IdleBatch
    /\ hist = InitHist
    /\ web = IdleWeb

\* no caller is about to resume with the value its call returned
Quiet == batch.pc # "done" /\ \A k \in Singles : tasks[k].pc # "done"

\* time passes
Tick ==
    /\ Quiet
    /\ now < MaxTime
    /\ now' = now + ClockStep
    /\ UNCHANGED <<client, chunkSize, breaker, tasks, batch, hist, web>>

\* a caller invokes a single-entity method
Call(k, op, id, headersOk) ==
    /\ Quiet
    /\ tasks[k].pc = "idle"
    /\ op \in ClientOps
    /\ Becomes(Begin(World, k, now, op, id, headersOk, MaxRetries))

\* an HTTP attempt of call k completes
Response(k, outcome) ==
    /\ Quiet
    /\ tasks[k].pc = "inflight"
    /\ IF k \in Singles
       THEN Becomes(Respond(World, k, now, outcome))
       ELSE Becomes(Join(Settle(Respond(World, k, now, outcome), k, now), now))

\* the backoff timer of call k fires
RetryTimer(k) ==
    /\ Quiet
    /\ tasks[k].pc = "sleep"
    /\ Becomes(Retry(World, k))

\* a caller invokes getDonors
GetDonors(arg, headersOk) ==
    /\ Quiet
    /\ client = "donor"
    /\ batch.pc = "idle"
    /\ Becomes(BeginBatch(World, now, arg, headersOk))

\* a /batch attempt completes
BatchResponse(o) ==
    /\ Quiet
    /\ batch.pc = "inflight"
    /\ Becomes(RespondBatch(World, now, o))

\* the /batch attempt of the current chunk completes in one of the ways it can
BatchReply ==
    /\ batch.pc = "inflight"
    /\ \E o \in BatchOutcomes(Chunks(World)[batch.ci]) : BatchResponse(o)

\* the backoff timer of the /batch request fires
BatchRetryTimer ==
    /\ Quiet
    /\ batch.pc = "sleep"
    /\ Becomes(RetryBatch(World))

\* the pacing timer of _fallbackToIndividualRequests fires
PaceTimer ==
    /\ Quiet
    /\ batch.pc = "pace"
    /\ Becomes(AfterPace(World, now))

\* the caller of a settled call resumes with its value: the continuation of an
\* await runs before any other callback
Return(k) ==
    /\ tasks[k].pc = "done"
    /\ tasks' = [tasks EXCEPT ![k] = IdleTask]
    /\ UNCHANGED <<client, chunkSize, breaker, now, batch, hist, web>>

ReturnBatch ==
    /\ batch.pc = "done"
    /\ batch' = IdleBatch
    /\ UNCHANGED <<client, chunkSize, breaker, now, tasks, hist, web>>

Next ==
    \/ Tick
    \/ \E k \in Singles, op \in DonorOps \cup ReceiptOps, headersOk \in BOOLEAN :
          Call(k, op, 1, headersOk)
    \/ \E k \in TaskIds, outcome \in HttpOutcomes : Response(k, outcome)
    \/ \E k \in TaskIds : RetryTimer(k)
    \/ \E arg \in BatchArgs, headersOk \in BOOLEAN : GetDonors(arg, headersOk)
    \/ BatchReply
    \/ BatchRetryTimer
    \/ PaceTimer
    \/ \E k \in Singles : Return(k)
    \/ ReturnBatch

Spec == Init /\ [][Next]_vars

\* The degraded-default constructors on their own: the client's constructor is
\* called for any ID, at any time and with the breaker in the state the
\* failures recorded so far have left it in; the values are kept side by side.
Slots == {Sub(i) : i \in 1..ChunkSize}

Construct(k, id) ==
    /\ tasks[k].pc = "idle"
    /\ tasks' = [tasks EXCEPT ![k] =
                    [IdleTask EXCEPT !.pc = "made", !.id = id,
                                     !.result = IF client = "donor"
                                                THEN CreateDefaultDonor(id, now)
                                                ELSE CreateDefaultReceipt(id, now)]]
    /\ UNCHANGED <<client, chunkSize, breaker, now, batch, hist, web>>

RecordsFailure ==
    /\ breaker.failureCount <= FailureThreshold
    /\ breaker' = RecordFailure(breaker, now)
    /\ UNCHANGED <<client, chunkSize, now, tasks, batch, hist, web>>

NextDefaults ==
    \/ Tick
    \/ \E k \in Slots, id \in Ids : Construct(k, id)
    \/ RecordsFailure

SpecDefaults == Init /\ [][NextDefaults]_vars

\* One getDonors call at a time on an otherwise idle DonorServiceClient, for
\* WideChunk IDs that make a single chunk.
InitWide ==
    /\ client = "donor"
    /\ chunkSize = WideChunk
    /\ breaker = [circuitState |-> "CLOSED", failureCount |-> 0,
                  lastFailureTime |-> NULL]
    /\ now = 0
    /\ tasks = [k \in TaskIds |-> IdleTask]
    /\ batch = IdleBatch
    /\ hist = InitHist
    /\ web = IdleWeb

NextWide ==
    \/ GetDonors(ListArg(Iota(WideChunk)), TRUE)
    \/ BatchReply
    \/ BatchRetryTimer
    \/ \E k \in TaskIds \ Singles, outcome \in HttpOutcomes : Response(k, outcome)
    \/ \E k \in TaskIds \ Singles : RetryTimer(k)
    \/ ReturnBatch

SpecWide == InitWide /\ [][NextWide]_vars

\* The downstream is down: getDonors is called again and again, for one ID or
\* more, on a DonorServiceClient that is CLOSED with count 0 at the start, and
\* every HTTP request is rejected.  The calls that ran to their end are counted.
MaxRuns == FailureThreshold + 1

InitOutage ==
    /\ client = "donor"
    /\ chunkSize = ChunkSize
    /\ breaker = [circuitState |-> "CLOSED", failureCount |-> 0,
                  lastFailureTime |-> NULL]
    /\ now = 0
    /\ tasks = [k \in TaskIds |-> IdleTask]
    /\ batch = IdleBatch
    /\ hist = [InitHist EXCEPT !.runs = 0]
    /\ web = IdleWeb

BatchRejected ==
    /\ batch.pc = "inflight"
    /\ BatchResponse([kind |-> "reject", ids |-> {}, throws |-> FALSE])

\* the caller asks again, for one ID or more
GetDonorsAgain(ids) ==
    /\ hist.runs < MaxRuns
    /\ GetDonors(ListArg(ids), TRUE)

NextOutage ==
    \/ \E ids \in BatchInputs \ {<<>>} : GetDonorsAgain(ids)
    \/ BatchRejected
    \/ BatchRetryTimer
    \/ \E k \in TaskIds \ Singles, outcome \in ErrKinds : Response(k, outcome)
    \/ \E k \in TaskIds \ Singles : RetryTimer(k)
    \/ ReturnBatch

SpecOutage == InitOutage /\ [][NextOutage]_vars

\* Two callers use one client at the same time: each invokes a single-entity
\* method, whose requests complete in any order, and resumes with the value.
Callers == {1, 2}

CallerCall(k, op) ==
    /\ tasks[k].pc = "idle"
    /\ op \in ClientOps
    /\ Becomes(Begin(World, k, now, op, k, TRUE, MaxRetries))

CallerResponse(k, outcome) ==
    /\ tasks[k].pc = "inflight"
    /\ Becomes(Respond(World, k, now, outcome))

CallerRetryTimer(k) ==
    /\ tasks[k].pc = "sleep"
    /\ Becomes(Retry(World, k))

CallerReturn(k) ==
    /\ tasks[k].pc = "done"
    /\ tasks' = [tasks EXCEPT ![k] = IdleTask]
    /\ UNCHANGED <<client, chunkSize, breaker, now, batch, hist, web>>

NextCallers ==
    \/ Tick
    \/ \E k \in Callers, op \in {"getDonor", "generateReceipt"} : CallerCall(k, op)
    \/ \E k \in Callers, outcome \in {"ok", "malformed", "network"} :
          CallerResponse(k, outcome)
    \/ \E k \in Callers : CallerRetryTimer(k)
    \/ \E k \in Callers : CallerReturn(k)

SpecCallers == Init /\ [][NextCallers]_vars

\* Recovery: a caller keeps invoking getDonor on a DonorServiceClient whose
\* downstream fails at will until it recovers, and from then on answers every
\* request with a valid envelope.  Time keeps advancing (up to MaxTime), every
\* request is answered, every timer fires, and the caller resumes and calls
\* again.
InitRecovery ==
    /\ client = "donor"
    /\ chunkSize = ChunkSize
    /\ breaker = [circuitState |-> "CLOSED", failureCount |-> 0,
                  lastFailureTime |-> NULL]
    /\ now = 0
    /\ tasks = [k \in TaskIds |-> IdleTask]
    /\ batch = IdleBatch
    /\ hist = InitHist
    /\ web = IdleWeb

GetDonorCall == Call(1, "getDonor", 1, TRUE)

FaultyResponse(outcome) ==
    /\ ~hist.healthy
    /\ Response(1, outcome)

HealthyResponse ==
    /\ hist.healthy
    /\ Response(1, "ok")

Recovers ==
    /\ ~hist.healthy
    /\ hist' = [hist EXCEPT !.healthy = TRUE]
    /\ UNCHANGED <<client, chunkSize, breaker, now, tasks, batch, web>>

NextRecovery ==
    \/ Tick
    \/ GetDonorCall
    \/ \E outcome \in HttpOutcomes : FaultyResponse(outcome)
    \/ HealthyResponse
    \/ RetryTimer(1)
    \/ Recovers
    \/ Return(1)

SpecRecovery ==
    /\ InitRecovery /\ [][NextRecovery]_vars
    /\ SF_vars(Tick)
    /\ WF_vars(GetDonorCall)
    /\ WF_vars(HealthyResponse)
    /\ WF_vars(RetryTimer(1))
    /\ WF_vars(Return(1))

\* Lines 401 and 418 of getDonors on their own: any list of IDs, duplicates
\* included, is reduced to its unique IDs and split into chunks of the size
\* the client was set up with.
MaxInput == MaxIds + 1

InputLists == UNION {[1..n -> Ids] : n \in 0..MaxInput}

InitSplit ==
    /\ client = "donor"
    /\ chunkSize \in 1..(ChunkSize + 1)
    /\ breaker = [circuitState |-> "CLOSED", failureCount |-> 0,
                  lastFailureTime |-> NULL]
    /\ now = 0
    /\ tasks = [k \in TaskIds |-> IdleTask]
    /\ batch = IdleBatch
    /\ hist = InitHist
    /\ web = IdleWeb

Split(donorIds) ==
    /\ batch' = [IdleBatch EXCEPT
                    !.pc = "split", !.arg = "list", !.donorIds = donorIds,
                    !.uniq = Dedupe(donorIds),
                    !.ci = Len(ChunkArray(Dedupe(donorIds), chunkSize))]
    /\ UNCHANGED <<client, chunkSize, breaker, now, tasks, hist, web>>

NextSplit == \E donorIds \in InputLists : Split(donorIds)

SpecSplit == InitSplit /\ [][NextSplit]_vars

\* POST / of donation-service: a request to create a donation is served; its
\* getDonor calls are call 1 of the DonorServiceClient.  One request at a
\* time, one after the other, against a downstream that answers as it likes.
PostCreate(valid) ==
    /\ client = "donor"
    /\ web.post.pc = "idle"
    /\ tasks[1].pc = "idle"
    /\ IF ~valid
       THEN \* validationResult(req) is not empty
            /\ web' = [web EXCEPT !.post = [pc |-> "responded", status |-> 400,
                                            lookup |-> "none", saved |-> 0]]
            /\ UNCHANGED <<client, chunkSize, breaker, now, tasks, batch, hist>>
       ELSE \* `await DonorServiceClient.getDonor(req.body.donorId, req.headers)`
            /\ web' = [web EXCEPT !.post = [pc |-> "verifying", status |-> 0,
                                            lookup |-> "none", saved |-> 0]]
            /\ Moves(Begin(World, 1, now, "getDonor", 1, TRUE, DonorMaxRetries))

\* (mutant) the route saves whatever getDonor returned
DonorVerdict_anyDonor(donor) ==
    IF donor = Rejected \/ donor = Null THEN 500 ELSE 0

\* the route's inner try block: `if (donor._defaultData) return
\* res.status(404)`; its catch block answers 500; 0 stands for going on
DonorVerdict(donor) ==
    IF donor = Rejected \/ donor = Null THEN 500
    ELSE IF "defaultData" \in DOMAIN donor /\ donor.defaultData THEN 404
    ELSE 0

\* the route resumes with the donor of its first getDonor call
PostVerified ==
    /\ web.post.pc = "verifying"
    /\ tasks[1].pc = "done"
    /\ web' = [web EXCEPT
                 !.post.lookup = tasks[1].exit,
                 !.post.pc = IF DonorVerdict(tasks[1].result) = 0
                             THEN "saving" ELSE "responded",
                 !.post.status = DonorVerdict(tasks[1].result)]
    /\ tasks' = [tasks EXCEPT ![1] = IdleTask]
    /\ UNCHANGED <<client, chunkSize, breaker, now, batch, hist>>

\* `await donation.save()` settles; on success the route goes on to its second
\* getDonor call, on failure its outer catch answers 500
PostSaved(ok) ==
    /\ web.post.pc = "saving"
    /\ IF ok
       THEN /\ web' = [web EXCEPT !.post.saved = @ + 1, !.post.pc = "fetching"]
            /\ Moves(Begin(World, 1, now, "getDonor", 1, TRUE, DonorMaxRetries))
       ELSE /\ web' = [web EXCEPT !.post.pc = "responded", !.post.status = 500]
            /\ UNCHANGED <<client, chunkSize, breaker, now, tasks, batch, hist>>

\* the route resumes with the donor of its second getDonor call: 201
PostFetched ==
    /\ web.post.pc = "fetching"
    /\ tasks[1].pc = "done"
    /\ web' = [web EXCEPT !.post.pc = "responded",
                          !.post.status = IF tasks[1].result = Rejected THEN 500 ELSE 201]
    /\ tasks' = [tasks EXCEPT ![1] = IdleTask]
    /\ UNCHANGED <<client, chunkSize, breaker, now, batch, hist>>

\* the response is out; the next request may come
PostDone ==
    /\ web.post.pc = "responded"
    /\ web' = [web EXCEPT !.post = IdleWeb.post]
    /\ UNCHANGED <<client, chunkSize, breaker, now, tasks, batch, hist>>

NextCreate ==
    \/ Tick
    \/ \E valid \in BOOLEAN : PostCreate(valid)
    \/ \E outcome \in HttpOutcomes : Response(1, outcome)
    \/ RetryTimer(1)
    \/ PostVerified
    \/ \E ok \in BOOLEAN : PostSaved(ok)
    \/ PostFetched
    \/ PostDone

SpecCreate == InitRecovery /\ [][NextCreate]_vars

\* POST /:donationId/receipt of donation-service: requests for the receipt of
\* one stored donation are served at the same time; the generateReceipt call of
\* request r is call r of the ReceiptServiceClient.
MaxGenerations == 3     \* generateReceipt invocations followed

InitReceipt ==
    /\ client = "receipt"
    /\ chunkSize = ChunkSize
    /\ breaker = [circuitState |-> "CLOSED", failureCount |-> 0,
                  lastFailureTime |-> NULL]
    /\ now = 0
    /\ tasks = [k \in TaskIds |-> IdleTask]
    /\ batch = IdleBatch
    /\ hist = InitHist
    /\ web = IdleWeb

\* the request arrives and passes validation: `await Donation.findById(...)`
ReceiptPost(r) ==
    /\ web.receipt[r].pc = "idle"
    /\ tasks[r].pc = "idle"
    /\ web' = [web EXCEPT !.receipt[r].pc = "finding"]
    /\ UNCHANGED <<client, chunkSize, breaker, now, tasks, batch, hist>>

\* `if (donation.receiptStatus !== 'PENDING') return res.status(400)`
MayGenerate(receiptStatus) == receiptStatus = "PENDING"

\* findById resolves with the document as stored now; the route tests its
\* receiptStatus and calls generateReceipt
ReceiptFound(r) ==
    /\ web.receipt[r].pc = "finding"
    /\ IF ~MayGenerate(web.receiptStatus)
       THEN /\ web' = [web EXCEPT !.receipt[r].seen = web.receiptStatus,
                                  !.receipt[r].pc = "responded",
                                  !.receipt[r].status = 400]
            /\ UNCHANGED <<client, chunkSize, breaker, now, tasks, batch, hist>>
       ELSE /\ web.generated < MaxGenerations
            /\ web' = [web EXCEPT !.receipt[r].seen = web.receiptStatus,
                                  !.receipt[r].pc = "generating",
                                  !.generated = @ + 1]
            /\ Moves(Begin(World, r, now, "generateReceipt", 1, TRUE, ReceiptMaxRetries))

\* an HTTP attempt of request r's generateReceipt call completes
ReceiptResponse(r, outcome) ==
    /\ tasks[r].pc = "inflight"
    /\ Becomes(Respond(World, r, now, outcome))

\* the backoff timer of request r's generateReceipt call fires
ReceiptRetryTimer(r) ==
    /\ tasks[r].pc = "sleep"
    /\ Becomes(Retry(World, r))

\* the route resumes with the receipt: it sets receiptStatus (and receiptId)
\* on its copy of the document and starts `await donation.save()`
ReceiptGenerated(r) ==
    /\ web.receipt[r].pc = "generating"
    /\ tasks[r].pc = "done"
    /\ web' = [web EXCEPT
                 !.receipt[r].pc =
                     IF tasks[r].result = Rejected \/ tasks[r].result = Null
                     THEN "responded" ELSE "saving",
                 !.receipt[r].status =
                     IF tasks[r].result = Rejected \/ tasks[r].result = Null
                     THEN 500 ELSE 0,
                 !.receipt[r].defaulted =
                     /\ "defaultData" \in DOMAIN tasks[r].result
                     /\ tasks[r].result.defaultData]
    /\ tasks' = [tasks EXCEPT ![r] = IdleTask]
    /\ UNCHANGED <<client, chunkSize, breaker, now, batch, hist>>

\* `await donation.save()` settles: 202 after a default receipt, 201 after a
\* real one, 500 from the catch block when the save rejects
ReceiptSaved(r, ok) ==
    /\ web.receipt[r].pc = "saving"
    /\ web' = IF ok
              THEN [web EXCEPT
                      !.receiptStatus = "GENERATED",
                      !.receiptId = IF web.receipt[r].defaulted THEN @ ELSE "receipt",
                      !.receipt[r].pc = "responded",
                      !.receipt[r].status = IF web.receipt[r].defaulted THEN 202 ELSE 201]
              ELSE [web EXCEPT !.receipt[r].pc = "responded",
                               !.receipt[r].status = 500]
    /\ UNCHANGED <<client, chunkSize, breaker, now, tasks, batch, hist>>

\* the response of request r is out
ReceiptDone(r) ==
    /\ web.receipt[r].pc = "responded"
    /\ web' = [web EXCEPT !.receipt[r] = IdleRequest]
    /\ UNCHANGED <<client, chunkSize, breaker, now, tasks, batch, hist>>

NextReceipt ==
    \/ Tick
    \/ \E r \in Requests :
          \/ ReceiptPost(r)
          \/ ReceiptFound(r)
          \/ \E outcome \in HttpOutcomes : ReceiptResponse(r, outcome)
          \/ ReceiptRetryTimer(r)
          \/ ReceiptGenerated(r)
          \/ \E ok \in BOOLEAN : ReceiptSaved(r, ok)
          \/ ReceiptDone(r)

SpecReceipt == InitReceipt /\ [][NextReceipt]_vars

----------------------------------------------------------------------------
(* Properties *)

RECURSIVE Pow2(_)
Pow2(n) == IF n = 0 THEN 1 ELSE 2 * Pow2(n - 1)

\* HTTP requests that are out and unanswered
InFlight ==
    Cardinality({k \in TaskIds : tasks[k].pc = "inflight"})
        + (IF batch.pc = "inflight" THEN 1 ELSE 0)

\* this step is the invocation of a single-entity method in slot k / of getDonors
Started(k) == tasks[k].pc = "idle" /\ tasks'[k].pc # "idle"
BatchStarted == batch.pc = "idle" /\ batch'.pc # "idle"

\* the breaker is OPEN and resetTimeout has not elapsed
Blocked ==
    /\ breaker.circuitState = "OPEN"
    /\ breaker.lastFailureTime # NULL
    /\ now - breaker.lastFailureTime < ResetTimeout

\* the breaker is OPEN and resetTimeout has elapsed
Cooled ==
    /\ breaker.circuitState = "OPEN"
    /\ breaker.lastFailureTime # NULL
    /\ now - breaker.lastFailureTime >= ResetTimeout

\* r is a default object carrying the _defaultData marker
IsPlaceholder(r) == "defaultData" \in DOMAIN r /\ r.defaultData = TRUE

\* call k returned without data: short-circuit or terminal failure
GaveUp(k) ==
    /\ tasks[k].pc = "done"
    /\ tasks[k].exit \in {"short", "headers", "malformed", "exhausted"}

(* C1 -- threshold trip.  Once failureThreshold failures have been recorded    *)
(* with no success between them, and until resetTimeout has passed since the   *)
(* last of them, the breaker is OPEN and _checkCircuit answers false; a        *)
(* single-entity call made then returns at once, short-circuited, having sent  *)
(* no HTTP request.                                                            *)
ThresholdTripStep ==
    /\ (hist'.streak >= FailureThreshold /\ now' - hist'.lastFail < ResetTimeout)
          => (breaker'.circuitState = "OPEN" /\ ~Allows(breaker', now'))
    /\ \A k \in Singles :
          (/\ hist.streak >= FailureThreshold
           /\ now - hist.lastFail < ResetTimeout
           /\ Started(k))
          => /\ tasks'[k].pc = "done"
             /\ tasks'[k].exit = "short"
             /\ tasks'[k].attempts = 0
             /\ InFlight' = InFlight

C1_ThresholdTrip == [][ThresholdTripStep]_vars

\* the call after failureThreshold straight failures was short-circuited
C1_Witness ==
    \E k \in Singles :
        /\ tasks[k].pc = "done" /\ tasks[k].exit = "short"
        /\ hist.streak = FailureThreshold
        /\ breaker.circuitState = "OPEN"

(* C2 -- no network on an open breaker.  A getDonor or getDonors invoked while *)
(* the breaker is OPEN and resetTimeout has not elapsed sends no HTTP request  *)
(* and returns the default donor of the requested ID, respectively the map     *)
(* that gives every requested ID its default donor.                            *)
NoNetworkStep ==
    Blocked =>
        /\ \A k \in Singles :
              (Started(k) /\ tasks'[k].op = "getDonor")
              => /\ tasks'[k].pc = "done"
                 /\ tasks'[k].attempts = 0
                 /\ InFlight' = InFlight
                 /\ tasks'[k].result = CreateDefaultDonor(tasks'[k].id, now)
        /\ BatchStarted
              => /\ batch'.pc = "done"
                 /\ InFlight' = InFlight
                 /\ \A k \in TaskIds : tasks'[k].pc = tasks[k].pc
                 /\ DOMAIN batch'.result.map = Range(batch'.donorIds)
                 /\ \A id \in DOMAIN batch'.result.map :
                       batch'.result.map[id] = CreateDefaultDonor(id, now)

C2_NoNetworkWhenOpen == [][NoNetworkStep]_vars

\* a getDonors for several IDs was short-circuited
C2_Witness ==
    /\ batch.pc = "done" /\ batch.exit = "short"
    /\ Cardinality(DOMAIN batch.result.map) >= 2

(* C3 -- batch coverage.  The map getDonors returns has exactly the unique     *)
(* input IDs as its keys.                                                      *)
C3_BatchCoverage ==
    batch.pc = "done" => DOMAIN batch.result.map = Range(batch.donorIds)

(* C4 -- failure absorption.  getDonor, generateReceipt and getDonors resolve  *)
(* with a value whatever the downstream does; their promise never rejects.     *)
C4_NeverRejects ==
    /\ \A k \in Singles :
          (tasks[k].pc = "done" /\ tasks[k].op \in {"getDonor", "generateReceipt"})
          => tasks[k].result \notin {Rejected, Pending}
    /\ batch.pc = "done" => "map" \in DOMAIN batch.result

\* getDonors returned although every chunk and every fallback call failed
C4_Witness ==
    /\ batch.pc = "done" /\ batch.exit = "ok"
    /\ Len(batch.uniq) > ChunkSize
    /\ \A id \in Range(batch.uniq) : IsPlaceholder(batch.result.map[id])

(* C5 (as claimed) -- every public method of both clients returns, on          *)
(* short-circuit and on terminal failure, a placeholder carrying the           *)
(* _defaultData marker, never null.                                            *)
C5_AlwaysPlaceholder ==
    \A k \in Singles : GaveUp(k) => IsPlaceholder(tasks[k].result)

(* C5 (amended) -- getDonor and generateReceipt return, on short-circuit and   *)
(* on terminal failure, a placeholder carrying the _defaultData marker, and    *)
(* every entry of the map getDonors returns is a donor payload or such a       *)
(* placeholder (a placeholder for every requested ID when getDonors was        *)
(* short-circuited or fell back as a whole); getReceiptById and sendReceipt    *)
(* return null in those cases.                                                 *)
C5_PlaceholderOrNull ==
    /\ \A k \in Singles :
          GaveUp(k) =>
              IF tasks[k].op \in {"getDonor", "generateReceipt"}
              THEN IsPlaceholder(tasks[k].result) /\ tasks[k].result # Null
              ELSE tasks[k].result = Null
    /\ batch.pc = "done" =>
          \A id \in Range(batch.donorIds) :
              /\ id \in DOMAIN batch.result.map
              /\ \/ IsPlaceholder(batch.result.map[id])
                 \/ /\ batch.result.map[id] = Payload(id)
                    /\ batch.exit \notin {"short", "fallback"}

\* generateReceipt gave up after its retries and returned a placeholder
C5_Witness ==
    \E k \in Singles :
        /\ tasks[k].pc = "done" /\ tasks[k].op = "generateReceipt"
        /\ tasks[k].exit = "exhausted"

(* C6 (as claimed) -- the call admitted when the breaker was OPEN with         *)
(* resetTimeout elapsed closes the breaker and zeroes the count when it        *)
(* succeeds.                                                                   *)
TrialSuccessClosesStep ==
    \A k \in Singles :
        (/\ tasks[k].pc = "inflight" /\ tasks[k].trial
         /\ tasks'[k].pc = "done" /\ tasks'[k].exit = "ok")
        => (breaker'.circuitState = "CLOSED" /\ breaker'.failureCount = 0)

C6_TrialSuccessCloses == [][TrialSuccessClosesStep]_vars

(* C6 (amended) -- a call made while the breaker is OPEN with resetTimeout     *)
(* elapsed is admitted and its request goes out with the breaker HALF_OPEN; a  *)
(* call that succeeds while the breaker is still HALF_OPEN closes it and       *)
(* zeroes the count.                                                           *)
HalfOpenRecoveryStep ==
    \A k \in Singles :
        /\ (Cooled /\ Started(k))
              => /\ tasks'[k].exit # "short"
                 /\ tasks'[k].pc = "inflight" => breaker'.circuitState = "HALF_OPEN"
        /\ (/\ breaker.circuitState = "HALF_OPEN"
            /\ tasks[k].pc = "inflight"
            /\ tasks'[k].pc = "done" /\ tasks'[k].exit = "ok")
              => (breaker'.circuitState = "CLOSED" /\ breaker'.failureCount = 0)

C6_HalfOpenRecovery == [][HalfOpenRecoveryStep]_vars

\* the trial call succeeded and closed the breaker
C6_Witness ==
    \E k \in Singles :
        /\ tasks[k].pc = "done" /\ tasks[k].trial /\ tasks[k].exit = "ok"
        /\ breaker.circuitState = "CLOSED" /\ breaker.failureCount = 0
        /\ now - breaker.lastFailureTime >= ResetTimeout

(* C7 -- half-open recovery on failure.  From the moment a failure is recorded *)
(* in HALF_OPEN until resetTimeout has passed since that moment, the breaker   *)
(* is OPEN, whatever the failure count, and _checkCircuit answers false.       *)
C7_TrialFailureReopens ==
    (hist.reopenedAt # NULL /\ now - hist.reopenedAt < ResetTimeout)
    => /\ breaker.circuitState = "OPEN"
       /\ breaker.lastFailureTime >= hist.reopenedAt
       /\ ~Allows(breaker, now)

\* a trial failed with the count below the threshold, and time has passed since
C7_Witness ==
    /\ hist.reopenedAt # NULL /\ now > hist.reopenedAt
    /\ now - hist.reopenedAt < ResetTimeout
    /\ breaker.circuitState = "OPEN"
    /\ breaker.failureCount < FailureThreshold

(* C8 -- transition discipline.  Every call of _checkCircuit, _recordSuccess   *)
(* and _recordFailure, in every interleaving, leaves the state as it is or     *)
(* moves it CLOSED->OPEN with the count at the threshold, OPEN->HALF_OPEN with *)
(* resetTimeout elapsed, HALF_OPEN->CLOSED or HALF_OPEN->OPEN.                 *)
C8_TransitionDiscipline == hist.legal

\* the breaker went CLOSED -> OPEN -> HALF_OPEN -> OPEN and a success came late
C8_Witness ==
    /\ hist.reopenedAt # NULL
    /\ breaker.circuitState = "OPEN"
    /\ breaker.failureCount = 0
    /\ hist.legal

(* C9 -- retry exhaustion.  A call whose every attempt is rejected makes       *)
(* maxRetries + 1 attempts; _recordFailure runs once per call and only when    *)
(* the call is over.                                                           *)
C9_RetryExhaustion ==
    \A k \in TaskIds :
        /\ tasks[k].attempts <= MaxRetries + 1
        /\ tasks[k].nFail <= 1
        /\ tasks[k].nFail = 1 => tasks[k].pc = "done"
        /\ (tasks[k].pc = "done" /\ tasks[k].exit = "exhausted")
              => (tasks[k].attempts = MaxRetries + 1 /\ tasks[k].nFail = 1)

\* a receipt call gave up after 4 attempts
C9_Witness ==
    \E k \in Singles :
        /\ tasks[k].pc = "done" /\ tasks[k].exit = "exhausted"
        /\ tasks[k].attempts = ReceiptMaxRetries + 1

(* C10 -- backoff growth.  The i-th wait of a call is retryDelay * 2^(i-1);    *)
(* there is one wait after every failed attempt but the last.                  *)
C10_BackoffGrowth ==
    \A k \in TaskIds :
        /\ \A i \in 1..Len(tasks[k].waits) :
              tasks[k].waits[i] = RetryDelay * Pow2(i - 1)
        /\ Len(tasks[k].waits) <= MaxRetries
        /\ Len(tasks[k].waits) =
              IF tasks[k].pc = "sleep" THEN tasks[k].attempts
              ELSE IF tasks[k].attempts = 0 THEN 0
              ELSE tasks[k].attempts - 1

\* a receipt call waited 300, 600 and 1200 ms and failed for good
C10_Witness ==
    \E k \in Singles :
        /\ tasks[k].waits = <<RetryDelay, 2 * RetryDelay, 4 * RetryDelay>>
        /\ tasks[k].pc = "done" /\ tasks[k].exit = "exhausted"

FallbackInFlight ==
    Cardinality({k \in TaskIds \ Singles : tasks[k].pc = "inflight"})

(* C12 -- bounded fallback concurrency.  The individual calls issued for a     *)
(* chunk whose /batch call failed never have more than 3 requests in flight    *)
(* at the same time.                                                           *)
C12_BoundedFallback ==
    batch.pc = "fallback" => FallbackInFlight <= ConcurrencyLimit

(* C13 -- sequential chunks.  While a /batch request of a getDonors call is    *)
(* out or waiting for its backoff timer, no individual call of an earlier      *)
(* chunk is still in progress; the chunks are sent one by one in order, each   *)
(* first sent only when the one before it is over.                             *)
SequentialChunksStep ==
    /\ batch'.pc \in {"inflight", "sleep"}
          => \A k \in TaskIds \ Singles : tasks'[k].pc = "idle"
    /\ (batch'.ci # batch.ci /\ batch'.ci # 0)
          => /\ batch'.ci = batch.ci + 1
             /\ batch.pc \in {"idle", "inflight", "fallback"}
             /\ batch'.pc = "inflight"
             /\ batch'.attempts = 1

C13_SequentialChunks == [][SequentialChunksStep]_vars

\* the second chunk is out after the first went through its individual calls
C13_Witness ==
    /\ batch.pc = "inflight" /\ batch.ci = 2
    /\ \E id \in DOMAIN batch.donorMap : IsPlaceholder(batch.donorMap[id])
    /\ \E id \in DOMAIN batch.donorMap : batch.donorMap[id] = Payload(id)

\* the map getDonors has built holds a donor that came from the downstream
HoldsRealEntity ==
    \E id \in DOMAIN batch.donorMap : ~IsPlaceholder(batch.donorMap[id])

(* C14 -- aggregate batch outcome.  A getDonors call that passed the gate and  *)
(* ran through its chunks ends by recording a success if its map holds a donor *)
(* retrieved from the downstream, and by recording a failure if it holds none. *)
C14_AggregateOutcome ==
    (batch.pc = "done" /\ batch.exit \in {"ok", "none-found"})
    => IF HoldsRealEntity
       THEN hist.streak = 0
       ELSE hist.streak >= 1 /\ breaker.lastFailureTime = now

(* C15 -- empty input.  getDonors called with an empty list, null or undefined *)
(* returns the empty map in the same step, sends no request, starts no         *)
(* individual call and leaves the breaker as it was, also when the breaker is  *)
(* OPEN with resetTimeout elapsed.                                             *)
EmptyInputStep ==
    (BatchStarted /\ (batch'.arg \in {"null", "undefined"} \/ batch'.donorIds = <<>>))
    => /\ batch'.pc = "done"
       /\ batch'.result = Resolved(EmptyMap)
       /\ InFlight' = InFlight
       /\ tasks' = tasks
       /\ breaker' = breaker
       /\ hist' = hist

C15_EmptyInput == [][EmptyInputStep]_vars

\* getDonors(null) returned while the breaker was OPEN and resetTimeout elapsed
C15_Witness ==
    /\ batch.pc = "done" /\ batch.arg = "null"
    /\ batch.result = Resolved(EmptyMap)
    /\ Cooled

\* what is left of a single-entity call: two steps (a response, a timer) for
\* every retry it may still make, and its last response
TaskRank(task) ==
    CASE task.pc = "inflight" -> 2 * task.retries + 2
      [] task.pc = "sleep" -> 2 * task.retries + 1
      [] OTHER -> 0

RECURSIVE SumRanks(_)
SumRanks(ks) ==
    IF ks = {} THEN 0
    ELSE LET k == CHOOSE x \in ks : TRUE
         IN  TaskRank(tasks[k]) + SumRanks(ks \ {k})

\* the most the individual calls of one chunk can have left
ChunkFallbackMax == WideChunk * (2 * DonorMaxRetries + 2)
\* the most one chunk can have left
ChunkMax == ChunkFallbackMax + 2 * DonorMaxRetries + 3

\* what is left of a getDonors call
BatchRank ==
    LET later == (Len(ChunkArray(batch.uniq, chunkSize)) - batch.ci) * ChunkMax
    IN  CASE batch.pc = "inflight" -> later + ChunkFallbackMax + 2 * batch.retries + 2
          [] batch.pc = "sleep" -> later + ChunkFallbackMax + 2 * batch.retries + 1
          [] batch.pc = "fallback" -> later + SumRanks(TaskIds \ Singles)
          [] batch.pc = "pace" ->
                 Len(ChunkArray(batch.uniq, ConcurrencyLimit)) - batch.qi + 1
          [] OTHER -> 0

\* every step of a call that has not returned brings it nearer to its return
TerminationStep ==
    /\ \A k \in Singles :
          (tasks[k].pc \in {"inflight", "sleep"} /\ tasks'[k] # tasks[k])
          => TaskRank(tasks'[k]) < TaskRank(tasks[k])
    /\ (/\ batch.pc \notin {"idle", "done"}
        /\ \/ batch' # batch
           \/ \E k \in TaskIds \ Singles : tasks'[k] # tasks[k])
       => BatchRank' < BatchRank

\* the work of a call stays within the bounds its counters and lists give it
BoundedWork ==
    /\ \A k \in TaskIds : /\ tasks[k].attempts <= MaxRetries + 1
                          /\ TaskRank(tasks[k]) <= 2 * MaxRetries + 2
    /\ batch.attempts <= DonorMaxRetries + 1
    /\ batch.ci <= Len(ChunkArray(batch.uniq, chunkSize))
    /\ batch.qi <= Len(ChunkArray(batch.uniq, ConcurrencyLimit))
    /\ BatchRank >= 0
    /\ batch.pc \in {"inflight", "sleep", "fallback", "pace"} => BatchRank >= 1

\* a call that has not returned is never stuck: it waits for a request that is
\* out (which completes or times out), for a timer that can fire, for an
\* individual call that is itself in progress, or for its caller to resume
CanProceed ==
    /\ \A k \in TaskIds :
          /\ tasks[k].pc \in {"idle", "inflight", "sleep", "done", "settled"}
          /\ tasks[k].pc = "settled" => (k \notin Singles /\ batch.pc = "fallback")
          /\ tasks[k].pc = "sleep" => (~Quiet \/ ENABLED RetryTimer(k))
          /\ tasks[k].pc = "done" => (k \in Singles /\ ENABLED Return(k))
    /\ batch.pc \in {"idle", "inflight", "sleep", "fallback", "pace", "done"}
    /\ batch.pc = "sleep" => (~Quiet \/ ENABLED BatchRetryTimer)
    /\ batch.pc = "pace" => (~Quiet \/ ENABLED PaceTimer)
    /\ batch.pc = "done" => ENABLED ReturnBatch
    /\ batch.pc = "fallback"
          => \E k \in TaskIds \ Singles : tasks[k].pc \in {"inflight", "sleep"}
    /\ batch.pc # "fallback"
          => \A k \in TaskIds \ Singles : tasks[k].pc = "idle"

(* C16 -- termination.  A call that has been invoked and has not returned can  *)
(* always take a step once the HTTP attempt or timer it waits for completes,   *)
(* and each of its steps lowers a bounded measure of the work it has left:     *)
(* at most maxRetries + 1 attempts per retried operation, no more chunks and   *)
(* fallback groups than the input has.  So every getDonor and getDonors call   *)
(* returns after a bounded number of steps.                                    *)
C16_Termination ==
    /\ []BoundedWork
    /\ []CanProceed
    /\ [][TerminationStep]_vars

\* getDonors returned after two chunks, the last through its individual calls
C16_Witness ==
    /\ batch.pc = "done" /\ batch.exit = "ok" /\ batch.ci = 2
    /\ \E id \in DOMAIN batch.donorMap : IsPlaceholder(batch.donorMap[id])

(* C17 (as claimed) -- every invocation of getDonor and generateReceipt has    *)
(* emitted exactly one metrics record when it returns.                         *)
C17_OneRecordPerCall ==
    \A k \in Singles :
        (tasks[k].pc = "done" /\ tasks[k].op \in {"getDonor", "generateReceipt"})
        => Len(tasks[k].metrics) = 1

(* C17 (amended) -- an invocation of getDonor or generateReceipt that passed   *)
(* the breaker gate has emitted exactly one metrics record when it returns,    *)
(* none before, and the record's status is SUCCESS exactly when the real       *)
(* payload is returned; a short-circuited invocation emits no record.          *)
C17_OneRecordPerAdmittedCall ==
    \A k \in Singles :
        tasks[k].op \in {"getDonor", "generateReceipt"}
        => IF tasks[k].pc # "done" \/ tasks[k].exit = "short"
           THEN tasks[k].metrics = <<>>
           ELSE /\ Len(tasks[k].metrics) = 1
                /\ (tasks[k].metrics[1] = "SUCCESS")
                      <=> (tasks[k].result = Payload(tasks[k].id))
                /\ (tasks[k].metrics[1] = "FAILURE")
                      <=> IsPlaceholder(tasks[k].result)

\* generateReceipt returned the receipt and logged SUCCESS
C17_Witness ==
    \E k \in Singles :
        /\ tasks[k].pc = "done" /\ tasks[k].op = "generateReceipt"
        /\ tasks[k].result = Payload(tasks[k].id)
        /\ tasks[k].metrics = <<"SUCCESS">>

\* a placeholder without its creation timestamp
Undated(r) == [r EXCEPT !.createdAt = 0]

UniformFailureStep ==
    \A k \in Singles :
        (/\ tasks[k].pc = "inflight"
         /\ tasks'[k].pc = "done"
         /\ tasks'[k].cause \in ErrKinds \cup {"malformed"})
        => /\ tasks'[k].exit \in {"exhausted", "malformed"}
           /\ breaker'.failureCount = breaker.failureCount + 1
           /\ breaker'.lastFailureTime = now
           /\ breaker'.failureCount >= FailureThreshold
                 => breaker'.circuitState = "OPEN"

C19_UniformFailures == [][UniformFailureStep]_vars

\* a lookup that ended in 404 was the failure that opened the breaker
C19_Witness ==
    \E k \in Singles :
        /\ tasks[k].pc = "done" /\ tasks[k].cause = "http404"
        /\ breaker.failureCount = FailureThreshold
        /\ hist.streak = FailureThreshold
        /\ breaker.circuitState = "OPEN"

(* C20 -- chunk calls are breaker-gated.  The first /batch request of a chunk  *)
(* is not sent at a moment when the breaker is OPEN and resetTimeout has not   *)
(* elapsed.                                                                    *)
ChunkGatedStep ==
    (batch'.ci # batch.ci /\ batch'.pc = "inflight") => ~Blocked'

C20_ChunksGated == [][ChunkGatedStep]_vars

(* C21 -- the breaker trips for batch callers too.  With a downstream that     *)
(* rejects every request, once failureThreshold getDonors calls in a row (each *)
(* for one ID or more, the first made with the breaker CLOSED and the count 0) *)
(* have run to their end the breaker is OPEN, and the getDonors call made next *)
(* is short-circuited.                                                         *)
BatchTripStep ==
    /\ (hist'.runs # NULL /\ hist'.runs >= FailureThreshold)
          => breaker'.circuitState = "OPEN"
    /\ (hist.runs # NULL /\ hist.runs >= FailureThreshold /\ BatchStarted)
          => (batch'.pc = "done" /\ batch'.exit = "short")

C21_BatchTrip == [][BatchTripStep]_vars

\* in this step a downstream request came back with a valid success response:
\* to a single-entity call, to an individual call of getDonors (whose donor
\* goes into the map), or to the last /batch request of a getDonors call
SuccessArrives ==
    \/ \E k \in Singles :
          /\ tasks[k].pc = "inflight"
          /\ tasks'[k].pc = "done" /\ tasks'[k].exit = "ok"
    \/ \E k \in TaskIds \ Singles :
          /\ tasks[k].pc = "inflight"
          /\ tasks'[k].pc \in {"settled", "idle"}
          /\ tasks[k].id \in DOMAIN batch'.donorMap
          /\ batch'.donorMap[tasks[k].id] = Payload(tasks[k].id)
    \/ /\ batch.pc = "inflight"
       /\ batch'.pc = "done" /\ batch'.answered

(* C22 -- the breaker never closes on a dead dependency.  In every             *)
(* interleaving of getDonor and getDonors calls, the breaker goes to CLOSED    *)
(* only from HALF_OPEN and only in a step in which a downstream request        *)
(* returns a valid success response; so if every request fails from the moment *)
(* the breaker opened, it never reaches CLOSED.                                *)
NeverClosesDeadStep ==
    (breaker.circuitState # "CLOSED" /\ breaker'.circuitState = "CLOSED")
    => (breaker.circuitState = "HALF_OPEN" /\ SuccessArrives)

C22_NeverClosesOnDead == [][NeverClosesDeadStep]_vars

\* getDonors, called after a trial had failed, got nothing but placeholders and
\* recorded a success: the count is 0 and the breaker is still OPEN
C22_Witness ==
    /\ batch.pc = "done" /\ batch.exit = "ok" /\ ~batch.answered
    /\ \A id \in DOMAIN batch.donorMap : IsPlaceholder(batch.donorMap[id])
    /\ hist.reopenedAt # NULL
    /\ breaker.circuitState = "OPEN" /\ breaker.failureCount = 0

(* C23 -- one breaker outcome per batch.  A getDonors call that passed the     *)
(* gate has, when it returns, made exactly one call of _recordSuccess or       *)
(* _recordFailure, its individual fallback calls included.                     *)
C23_OneOutcomePerBatch ==
    (batch.pc = "done" /\ batch.exit \notin {"short", "empty"}) => batch.nRec = 1

\* the calls of _recordSuccess and _recordFailure a getDonor call has made
OutcomesCounted ==
    \A k \in TaskIds :
        tasks[k].op = "getDonor"
        => IF tasks[k].pc # "done" \/ tasks[k].exit = "short"
           THEN tasks[k].nSucc = 0 /\ tasks[k].nFail = 0
           ELSE /\ tasks[k].nSucc + tasks[k].nFail = 1
                /\ tasks[k].nSucc = 1 <=> tasks[k].exit = "ok"
                /\ tasks[k].exit = "ok" <=> tasks[k].result = Payload(tasks[k].id)

\* the step in which a getDonor call ends does to the breaker what one call of
\* the one method does, and nothing when the call is short-circuited
OneOutcomeStep ==
    \A k \in Singles :
        (tasks[k].pc # "done" /\ tasks'[k].pc = "done" /\ tasks'[k].op = "getDonor")
        => breaker' =
              CASE tasks'[k].exit = "short" -> breaker
                [] tasks'[k].exit = "ok" -> RecordSuccess(breaker)
                [] tasks'[k].exit = "headers" ->
                       RecordFailure(CheckCircuit(breaker, now), now)
                [] OTHER -> RecordFailure(breaker, now)

(* C24 -- one breaker outcome per single call.  A getDonor call that passed    *)
(* the gate makes, when it ends and not before, exactly one call of            *)
(* _recordSuccess or _recordFailure: _recordSuccess exactly when a valid       *)
(* envelope was received.  A short-circuited call makes neither.               *)
C24_OneOutcomePerCall ==
    /\ []OutcomesCounted
    /\ [][OneOutcomeStep]_vars

\* getDonor gave up after its three attempts with one failure recorded
C24_Witness ==
    \E k \in Singles :
        /\ tasks[k].pc = "done" /\ tasks[k].op = "getDonor"
        /\ tasks[k].exit = "exhausted"
        /\ tasks[k].attempts = DonorMaxRetries + 1
        /\ tasks[k].nFail = 1 /\ tasks[k].nSucc = 0
        /\ breaker.failureCount = 1

(* C25 -- short-circuit is not a failure.  A getDonor or getDonors call made   *)
(* while the breaker is OPEN and resetTimeout has not elapsed is rejected and  *)
(* leaves the state, the failure count and lastFailureTime as they were: the   *)
(* moment at which the breaker admits a trial does not move.                   *)
ShortCircuitStep ==
    (Blocked /\ (BatchStarted \/ \E k \in Singles : Started(k)))
    => /\ \A k \in Singles : Started(k) => tasks'[k].exit = "short"
       /\ BatchStarted => batch'.exit \in {"short", "empty"}
       /\ breaker' = breaker
       /\ hist' = hist
       /\ \A i \in 0..(MaxTicks + 2) :
             Allows(breaker', i * ClockStep) <=> Allows(breaker, i * ClockStep)

C25_ShortCircuitNoFailure == [][ShortCircuitStep]_vars

\* a single-entity call was rejected after time had passed since the breaker
\* opened: the cooldown still counts from the failure that opened it
C25_Witness ==
    \E k \in Singles :
        /\ tasks[k].pc = "done" /\ tasks[k].exit = "short"
        /\ Blocked
        /\ now > breaker.lastFailureTime
        /\ breaker.lastFailureTime = hist.lastFail

(* C26 -- only consecutive failures trip.  While the breaker is CLOSED its     *)
(* failure count is the number of failures recorded since the last recorded    *)
(* success (a success recorded while CLOSED zeroes it) and is below            *)
(* failureThreshold; no call of a breaker method takes the breaker out of      *)
(* CLOSED unless it is the failureThreshold-th failure in a row.               *)
C26_ConsecutiveFailuresTrip ==
    /\ hist.onStreak
    /\ breaker.circuitState = "CLOSED"
          => /\ breaker.failureCount = hist.streak
             /\ hist.streak < FailureThreshold

\* a call succeeded right after a failure had been counted, the breaker CLOSED:
\* the count is back at 0
C26_Witness ==
    \E k \in Singles :
        /\ tasks[k].pc = "done" /\ tasks[k].exit = "ok"
        /\ breaker.circuitState = "CLOSED"
        /\ breaker.failureCount = 0
        /\ breaker.lastFailureTime = now
        /\ hist.reopenedAt = NULL

\* the individual calls of getDonors belong to the chunk in hand, whose /batch
\* call gave no donor; a request of such a call first goes out in the callback
\* of that /batch call, which ends in the individual calls
FallbackScopedStep ==
    \A k \in TaskIds \ Singles :
        /\ tasks'[k].pc \in {"inflight", "sleep"}
              => /\ batch'.pc = "fallback"
                 /\ tasks'[k].id \in Range(Chunks(World)'[batch'.ci])
                 /\ tasks'[k].id \notin DOMAIN batch'.donorMap
        /\ (tasks[k].pc = "idle" /\ tasks'[k].pc = "inflight")
              => /\ batch.pc = "inflight"
                 /\ batch'.ci = batch.ci
                 /\ ~batch'.answered

\* a getDonors call that ran through its chunks gives the IDs that no /batch
\* response and no individual call brought a donor for their default donor
Backfilled ==
    (batch.pc = "done" /\ batch.exit \in {"ok", "none-found"})
    => \A id \in Range(batch.uniq) \ DOMAIN batch.donorMap :
           /\ id \in DOMAIN batch.result.map
           /\ IsPlaceholder(batch.result.map[id])

(* C27 -- fallback is scoped to the failed chunk.  getDonors issues an         *)
(* individual downstream call for an ID only in the chunk in hand and only     *)
(* when the /batch call of that chunk failed; an ID of a chunk whose /batch    *)
(* call succeeded gets no individual call even if the response left it out,    *)
(* and is given its default donor when the map is filled up at the end.        *)
C27_FallbackScoped ==
    /\ []Backfilled
    /\ [][FallbackScopedStep]_vars

\* getDonors returned: one chunk's response had left an ID out (backfilled, no
\* individual call), another chunk went through its individual calls
C27_Witness ==
    /\ batch.pc = "done" /\ batch.exit = "ok"
    /\ Range(batch.uniq) \ DOMAIN batch.donorMap # {}
    /\ \E id \in DOMAIN batch.donorMap : IsPlaceholder(batch.donorMap[id])
    /\ \E id \in DOMAIN batch.donorMap : batch.donorMap[id] = Payload(id)

\* call k is waiting for a response or for its backoff timer
InProgress(k) == tasks[k].pc \in {"inflight", "sleep"}

\* this step is the end of call k, with or without a valid response
Succeeds(k) == tasks[k].pc = "inflight" /\ tasks'[k].pc = "done" /\ tasks'[k].exit = "ok"
GivesUp(k) == tasks[k].pc = "inflight" /\ tasks'[k].pc = "done" /\ tasks'[k].exit # "ok"

ConcurrentTrialsStep ==
    \A j, k \in Callers :
        j # k =>
            \* a HALF_OPEN breaker admits the caller, whoever else is under way
            /\ (breaker.circuitState = "HALF_OPEN" /\ tasks[k].pc = "idle"
                    /\ tasks'[k].pc # "idle")
                  => /\ tasks'[k].pc = "inflight"
                     /\ breaker' = breaker
            \* the first of two trials to finish decides the state
            /\ (breaker.circuitState = "HALF_OPEN" /\ InProgress(j) /\ Succeeds(k))
                  => /\ breaker'.circuitState = "CLOSED"
                     /\ breaker'.failureCount = 0
            /\ (breaker.circuitState = "HALF_OPEN" /\ InProgress(j) /\ GivesUp(k))
                  => /\ breaker'.circuitState = "OPEN"
                     /\ breaker'.lastFailureTime = now
            \* success, then failure
            /\ (/\ tasks[j].pc = "done" /\ tasks[j].exit = "ok"
                /\ breaker.circuitState = "CLOSED" /\ breaker.failureCount = 0
                /\ GivesUp(k))
                  => /\ breaker'.circuitState = "CLOSED"
                     /\ breaker'.failureCount = 1
            \* failure, then success
            /\ (/\ tasks[j].pc = "done" /\ tasks[j].exit # "ok"
                /\ breaker.circuitState = "OPEN"
                /\ hist.reopenedAt = breaker.lastFailureTime
                /\ Succeeds(k))
                  => /\ breaker'.circuitState = "OPEN"
                     /\ breaker'.failureCount = 0

(* C28 -- no single-trial gating.  A HALF_OPEN breaker admits every caller;    *)
(* of two calls under way while it is HALF_OPEN, the first to end closes it    *)
(* (success) or reopens it (failure), and the other's outcome is then recorded *)
(* on that state: a failure after the success leaves CLOSED with count 1, a    *)
(* success after the failure leaves OPEN with count 0.                         *)
C28_ConcurrentTrials == [][ConcurrentTrialsStep]_vars

\* two calls were under way with the breaker HALF_OPEN; the trial failed, then
\* the other succeeded: OPEN with count 0
C28_Witness ==
    \E j, k \in Callers :
        /\ tasks[j].pc = "done" /\ tasks[j].trial /\ tasks[j].exit # "ok"
        /\ tasks[k].pc = "done" /\ ~tasks[k].trial /\ tasks[k].exit = "ok"
        /\ hist.reopenedAt = breaker.lastFailureTime
        /\ breaker.circuitState = "OPEN" /\ breaker.failureCount = 0

\* the downstream has recovered and the breaker is OPEN, at a time from which
\* the clock of the model can still run through resetTimeout
OpenAfterRecovery ==
    /\ hist.healthy
    /\ breaker.circuitState = "OPEN"
    /\ breaker.lastFailureTime + ResetTimeout <= MaxTime

(* C29 -- recovery liveness.  If the breaker is OPEN and the downstream answers *)
(* every request successfully from some point on, while time keeps advancing    *)
(* and the caller keeps invoking getDonor, the breaker eventually becomes       *)
(* CLOSED; once it is CLOSED with the downstream recovered it stays CLOSED.     *)
C29_Recovery ==
    /\ OpenAfterRecovery ~> (breaker.circuitState = "CLOSED")
    /\ []((hist.healthy /\ breaker.circuitState = "CLOSED")
            => [](breaker.circuitState = "CLOSED"))

\* the trial call made after the downstream recovered has closed the breaker
C29_Witness ==
    /\ hist.healthy
    /\ tasks[1].pc = "done" /\ tasks[1].trial /\ tasks[1].exit = "ok"
    /\ breaker.circuitState = "CLOSED" /\ breaker.failureCount = 0
    /\ hist.lastFail # NULL /\ now - hist.lastFail >= ResetTimeout

\* where x first occurs in s
FirstIndex(s, x) == CHOOSE i \in DOMAIN s : s[i] = x /\ \A j \in 1..(i - 1) : s[j] # x

RECURSIVE Flatten(_)
Flatten(ss) == IF ss = <<>> THEN <<>> ELSE Head(ss) \o Flatten(Tail(ss))

\* u is s without its repetitions, in order of first occurrence
IsUniqueOf(u, s) ==
    /\ Range(u) = Range(s)
    /\ \A i, j \in DOMAIN u : i < j => FirstIndex(s, u[i]) < FirstIndex(s, u[j])

\* cs cuts u into consecutive pieces of `size`, the last one possibly shorter
IsChunkingOf(cs, u, size) ==
    /\ \A i \in DOMAIN cs : Len(cs[i]) >= 1 /\ Len(cs[i]) <= size
    /\ \A i \in 1..(Len(cs) - 1) : Len(cs[i]) = size
    /\ Flatten(cs) = u

(* C30 -- de-duplication and chunking.  getDonors reduces its input to the     *)
(* unique IDs in order of first occurrence and splits them into consecutive    *)
(* chunks: every chunk has between 1 and chunk-size IDs, every chunk but the   *)
(* last has exactly chunk-size, and the chunks concatenated are the unique-ID  *)
(* list.                                                                       *)
C30_DedupeAndChunk ==
    batch.pc = "split"
    => /\ IsUniqueOf(batch.uniq, batch.donorIds)
       /\ IsChunkingOf(ChunkArray(batch.uniq, chunkSize), batch.uniq, chunkSize)
       /\ batch.ci = Len(ChunkArray(batch.uniq, chunkSize))

\* an input with repetitions whose unique IDs make a full chunk and a shorter one
C30_Witness ==
    /\ batch.pc = "split"
    /\ Len(batch.donorIds) > Len(batch.uniq)
    /\ batch.donorIds[1] # 1
    /\ chunkSize = ChunkSize
    /\ batch.ci = 2
    /\ Len(batch.uniq) = ChunkSize + 1

(* C31 -- marker faithfulness.  getDonor returns the value _createDefaultDonor  *)
(* makes for the requested ID, with the marker set, exactly when the call was   *)
(* short-circuited or ended in a terminal failure; in every other case it       *)
(* returns the data of the valid response its last attempt received, which      *)
(* carries no marker of the client's.                                           *)
C31_MarkerFaithful ==
    \A k \in Singles :
        (tasks[k].pc = "done" /\ tasks[k].op = "getDonor")
        => /\ IsPlaceholder(tasks[k].result) <=> GaveUp(k)
           /\ GaveUp(k) => tasks[k].result = CreateDefaultDonor(tasks[k].id, now)
           /\ ~GaveUp(k) => /\ tasks[k].exit = "ok"
                            /\ tasks[k].result = Payload(tasks[k].id)
                            /\ tasks[k].cause = "none"
                            /\ ~tasks[k].sawMalformed

\* getDonor returned the donor its third attempt brought
C31_Witness ==
    \E k \in Singles :
        /\ tasks[k].pc = "done" /\ tasks[k].op = "getDonor"
        /\ tasks[k].attempts = DonorMaxRetries + 1
        /\ tasks[k].exit = "ok"
        /\ tasks[k].result = Payload(tasks[k].id)

(* C32 -- a CLOSED breaker has counted fewer than failureThreshold failures,   *)
(* in every reachable state of either client; the count reaches or passes the  *)
(* threshold only while the breaker is OPEN or HALF_OPEN.                      *)
C32_ClosedBelowThreshold ==
    /\ breaker.circuitState = "CLOSED" => breaker.failureCount < FailureThreshold
    /\ breaker.failureCount >= FailureThreshold
          => breaker.circuitState \in {"OPEN", "HALF_OPEN"}
    /\ breaker.failureCount >= 0

\* failures recorded after the breaker opened took the count past the threshold
C32_Witness ==
    /\ breaker.circuitState = "OPEN"
    /\ breaker.failureCount > FailureThreshold

\* lastFailureTime is written by _recordFailure alone, with the current time
LastFailureTimeStep ==
    /\ breaker'.lastFailureTime >= breaker.lastFailureTime
    /\ breaker.lastFailureTime # NULL => breaker'.lastFailureTime # NULL
    /\ breaker'.lastFailureTime # breaker.lastFailureTime
          => /\ breaker'.lastFailureTime = now
             /\ hist'.lastFail = now

(* C33 -- an OPEN or HALF_OPEN breaker has a lastFailureTime (not null), and   *)
(* lastFailureTime never decreases: it changes only when _recordFailure sets   *)
(* it to the current time.                                                     *)
C33_LastFailureTime ==
    /\ [](breaker.circuitState \in {"OPEN", "HALF_OPEN"}
             => (breaker.lastFailureTime # NULL /\ breaker.lastFailureTime >= 0))
    /\ [](breaker.lastFailureTime = hist.lastFail /\ breaker.lastFailureTime <= now)
    /\ [][LastFailureTimeStep]_vars

\* the trial made after the cooldown failed: lastFailureTime has moved on from
\* the failure that opened the breaker, and a success came after it
C33_Witness ==
    /\ breaker.circuitState = "OPEN"
    /\ breaker.lastFailureTime >= ResetTimeout
    /\ hist.reopenedAt = breaker.lastFailureTime
    /\ breaker.failureCount = 0

\* a single-entity call succeeds while the breaker is OPEN: the state and
\* lastFailureTime stay, the count is zeroed, and the moment from which a trial
\* is admitted does not move
LateSuccessStep ==
    \A k \in Singles :
        (breaker.circuitState = "OPEN" /\ tasks[k].pc = "inflight"
            /\ tasks'[k].pc = "done" /\ tasks'[k].exit = "ok")
        => /\ breaker'.circuitState = "OPEN"
           /\ breaker'.lastFailureTime = breaker.lastFailureTime
           /\ breaker'.failureCount = 0
           /\ \A i \in 0..(MaxTicks + 2) :
                 Allows(breaker', i * ClockStep) <=> Allows(breaker, i * ClockStep)

(* C34 -- a late success.  A success recorded while the breaker is OPEN, by a  *)
(* call admitted before it opened, leaves the state OPEN and lastFailureTime   *)
(* as they were and only zeroes the failure count: it neither closes the       *)
(* breaker nor shortens the cooldown.                                          *)
C34_LateSuccess == [][LateSuccessStep]_vars

\* a call admitted before the breaker opened has succeeded during the cooldown
C34_Witness ==
    \E k \in Singles :
        /\ tasks[k].pc = "done" /\ tasks[k].exit = "ok" /\ ~tasks[k].trial
        /\ Blocked
        /\ breaker.failureCount = 0
        /\ hist.reopenedAt = NULL

\* how a getDonor call ends when it returns a default donor
DegradedExits == {"short", "headers", "malformed", "exhausted"}

(* C35 -- donation creation is gated on a real donor lookup.  POST / saves a   *)
(* Donation only after its first getDonor call returned the downstream's       *)
(* donor; when that call returns a default donor (short-circuit, donor not     *)
(* found, downstream failure) nothing is saved and the response is 404.  The   *)
(* route answers 5xx only when saving the Donation fails.                      *)
C35_CreationGated ==
    /\ web.post.saved \in {0, 1}
    /\ web.post.saved = 1 => web.post.lookup = "ok"
    /\ web.post.lookup \in DegradedExits
          => /\ web.post.pc = "responded"
             /\ web.post.status = 404
             /\ web.post.saved = 0
    /\ web.post.status >= 500
          => /\ web.post.lookup = "ok"
             /\ web.post.saved = 0
    /\ web.post.pc \in {"saving", "fetching"} => web.post.lookup = "ok"
    /\ web.post.pc = "verifying" => web.post.lookup = "none"
    /\ (web.post.pc = "responded" /\ web.post.status = 201) => web.post.saved = 1

\* the breaker was open: the request was answered 404 without a request to the
\* donor service, and nothing was saved
C35_Witness ==
    /\ web.post.pc = "responded"
    /\ web.post.lookup = "short"
    /\ web.post.status = 404
    /\ Blocked

(* C36 -- at most one receipt generation per donation.  However the requests   *)
(* POST /:donationId/receipt for one donation interleave, generateReceipt is   *)
(* invoked at most once for that donation.                                     *)
C36_OneGeneration == web.generated <= 1

\* two requests are inside generateReceipt for the same donation at once, both
\* having read receiptStatus PENDING
C36_Race ==
    /\ \A r \in Requests : web.receipt[r].pc = "generating" /\ web.receipt[r].seen = "PENDING"
    /\ web.receiptStatus = "PENDING"
    /\ web.generated = 2

====
